---- MODULE Spec2Model ----
(***************************************************************************)
(* Model of mcp-server/server.py: the score lookup table loaded at module  *)
(* import and the query tools that read it.                                *)
(*                                                                         *)
(* Python strings are sequences of one-character strings, so that          *)
(* str.lower() and str.strip() are computed character by character.        *)
(* Python values of varying type (None, a list, a str) are tagged records. *)
(* Floats are integers: a score is a whole number of points, and           *)
(* avg_salary_thousands is counted in thousandths (61234 is 61.234).       *)
(***************************************************************************)
EXTENDS Integers, Sequences, FiniteSets, TLC

(***************************************************************************)
(* Bounds of the model.                                                    *)
(***************************************************************************)
\* rows read from score_lookup.csv
MaxRows == 2
\* length of the states argument of compare_states
MaxStates == 2
\* largest n passed to top_states (the smallest is -1)
MaxN == 2

(***************************************************************************)
(* Strings.                                                                *)
(***************************************************************************)
UpperCase == <<"A","B","C","D","E","F","G","H","I","J","K","L","M",
               "N","O","P","Q","R","S","T","U","V","W","X","Y","Z">>
LowerCase == <<"a","b","c","d","e","f","g","h","i","j","k","l","m",
               "n","o","p","q","r","s","t","u","v","w","x","y","z">>

\* the characters of the model's strings
Chars ==
    {UpperCase[i] : i \in 1..Len(UpperCase)} \cup {LowerCase[i] : i \in 1..Len(LowerCase)}
    \cup {" ", "\t", "\n", "\r", "+", "-", "0", "1", "2", "3", "4", "5", "6", "7", "8", "9"}

\* str.lower(), character by character, as a table
LowerTable ==
    [c \in Chars |->
        IF \E i \in 1..Len(UpperCase) : UpperCase[i] = c
        THEN LowerCase[CHOOSE i \in 1..Len(UpperCase) : UpperCase[i] = c]
        ELSE c]

\* one character of str.lower()
LowerChar(c) == LowerTable[c]

\* str.lower()
Lower(s) == [i \in 1..Len(s) |-> LowerChar(s[i])]

\* the characters str.strip() removes
IsSpace(c) == c \in {" ", "\t", "\n", "\r"}

RECURSIVE LStrip(_)
LStrip(s) ==
    IF s = <<>> THEN s
    ELSE IF IsSpace(Head(s)) THEN LStrip(Tail(s)) ELSE s

RECURSIVE RStrip(_)
RStrip(s) ==
    IF s = <<>> THEN s
    ELSE IF IsSpace(s[Len(s)]) THEN RStrip(SubSeq(s, 1, Len(s) - 1)) ELSE s

\* str.strip()
Strip(s) == LStrip(RStrip(s))

\* code points of the characters the model uses, for str comparison
Ord(c) ==
    IF \E i \in 1..Len(UpperCase) : UpperCase[i] = c
    THEN 64 + (CHOOSE i \in 1..Len(UpperCase) : UpperCase[i] = c)
    ELSE IF \E i \in 1..Len(LowerCase) : LowerCase[i] = c
    THEN 96 + (CHOOSE i \in 1..Len(LowerCase) : LowerCase[i] = c)
    ELSE CASE c = "\t" -> 9 [] c = "\n" -> 10 [] c = "\r" -> 13
           [] c = " " -> 32 [] c = "+" -> 43 [] c = "-" -> 45
           [] c = "0" -> 48 [] c = "1" -> 49 [] c = "2" -> 50
           [] c = "3" -> 51 [] c = "4" -> 52 [] c = "5" -> 53
           [] c = "6" -> 54 [] c = "7" -> 55 [] c = "8" -> 56
           [] c = "9" -> 57

\* s < t for Python strings
RECURSIVE StrLess(_, _)
StrLess(s, t) ==
    IF t = <<>> THEN FALSE
    ELSE IF s = <<>> THEN TRUE
    ELSE IF Ord(Head(s)) < Ord(Head(t)) THEN TRUE
    ELSE IF Ord(Head(s)) > Ord(Head(t)) THEN FALSE
    ELSE StrLess(Tail(s), Tail(t))

(***************************************************************************)
(* Python values.                                                          *)
(***************************************************************************)
None == [tag |-> "None"]
PyList(items) == [tag |-> "list", items |-> items]
PyStr(s) == [tag |-> "str", val |-> s]

\* round(x, 2) of a float counted in thousandths; a tie goes to the even
\* hundredth, as for a decimal the float represents exactly
Round2(x) ==
    LET r == x % 10
        down == x - r
    IN  IF r < 5 THEN down
        ELSE IF r > 5 THEN down + 10
        ELSE IF (down \div 10) % 2 = 0 THEN down ELSE down + 10

(***************************************************************************)
(* The rows score_lookup.csv may hold.  ok is FALSE for a row whose score, *)
(* establishments, employees or avg_salary_thousands text does not parse.  *)
(***************************************************************************)
CsvRow(st, ct, es, sc, cf, est, emp, sal, ok) ==
    [state |-> st, corp_type |-> ct, emp_size |-> es, score |-> sc,
     confidence |-> cf, establishments |-> est, employees |-> emp,
     avg_salary_thousands |-> sal, ok |-> ok]

cCorp == <<"c","-","c","o","r","p">>
CCorp == <<"C","-","C","o","r","p">>

Rows ==
    { CsvRow(<<"C","A">>, cCorp, <<"5","-","9">>, 10, "low", 3, 30, 50000, TRUE),
      CsvRow(<<"c","a">>, CCorp, <<"5","-","9">>, 90, "high", 4, 40, 61234, TRUE),
      CsvRow(<<" ","C","A">>, cCorp, <<"5","-","9"," ">>, 50, "medium", 5, 50, 45678, TRUE),
      CsvRow(<<"T","X">>, cCorp, <<"5","-","9">>, 10, "low", 6, 60, 50000, TRUE),
      CsvRow(<<"T","X">>, cCorp, <<"1","-","4">>, 90, "high", 7, 70, 61234, TRUE),
      CsvRow(<<"N","Y">>, cCorp, <<"b","i","g">>, 50, "medium", 8, 80, 70008, TRUE),
      CsvRow(<<"N","Y">>, cCorp, <<"1","-","4">>, 0, "low", 0, 0, 0, FALSE) }

\* arguments the tools are called with
QStates == { <<" ","c","a"," ">>, <<"T","X">> }
QCorpTypes == { <<" ","C","-","C","O","R","P">>, <<"l","l","c">> }
QEmpSizes == { <<"5","-","9">>, <<"1","-","4"," ">> }

(***************************************************************************)
(* State.                                                                  *)
(***************************************************************************)
VARIABLES
    pc,           \* "import", "loading", "serving" or "failed"
    rows,         \* the rows the csv reader has yielded so far
    LOOKUP_DATA,  \* dict in insertion order: sequence of [key, data]
    STATES,       \* set of display strings
    CORP_TYPES,
    EMP_SIZES,
    call,         \* the last tool call: its name and arguments
    result,       \* what the last tool call returned
    load_error,   \* the exception load_lookup_table raised, or "none"
    emp_iter,     \* the order in which iterating EMP_SIZES yields its elements
    repeated      \* whether the last tool call has been made a second time

vars == <<pc, rows, LOOKUP_DATA, STATES, CORP_TYPES, EMP_SIZES, call, result,
          load_error, emp_iter, repeated>>

\* the globals the tools read
index == <<LOOKUP_DATA, STATES, CORP_TYPES, EMP_SIZES>>

(***************************************************************************)
(* dict operations on a sequence of [key, data] entries.                   *)
(***************************************************************************)
DictHas(d, k) == \E i \in 1..Len(d) : d[i].key = k

DictGet(d, k) == d[CHOOSE i \in 1..Len(d) : d[i].key = k].data

\* d[k] = v: a new key goes last, an existing key keeps its position
DictSet(d, k, v) ==
    IF DictHas(d, k)
    THEN [i \in 1..Len(d) |-> IF d[i].key = k THEN [key |-> k, data |-> v] ELSE d[i]]
    ELSE Append(d, [key |-> k, data |-> v])

\* the orders in which iterating a Python set may yield its elements
IterOrders(S) ==
    { p \in [1..Cardinality(S) -> S] : \A i, j \in 1..Cardinality(S) : p[i] = p[j] => i = j }

(***************************************************************************)
(* load_lookup_table and the module-import try/except around it.           *)
(***************************************************************************)
\* key = (state.lower(), corp_type.lower(), emp_size.lower())
LoadKey(row) == <<Lower(row.state), Lower(row.corp_type), Lower(row.emp_size)>>

\* the dict stored for a row
LoadData(row) ==
    [state |-> row.state, corp_type |-> row.corp_type, emp_size |-> row.emp_size,
     score |-> row.score, confidence |-> row.confidence,
     establishments |-> row.establishments, employees |-> row.employees,
     avg_salary_thousands |-> row.avg_salary_thousands]

Init ==
    /\ pc = "import"
    /\ rows = <<>>
    /\ LOOKUP_DATA = <<>>
    /\ STATES = {}
    /\ CORP_TYPES = {}
    /\ EMP_SIZES = {}
    /\ call = [op |-> "none"]
    /\ result = None
    /\ load_error = "none"
    /\ emp_iter = <<>>
    /\ repeated = FALSE

\* the try/except around load_lookup_table at import catches every exception
AfterLoadError_CatchAll(error) == "serving"

\* the try/except around load_lookup_table at import: FileNotFoundError is
\* passed and the module goes on to serve; any other exception ends the import
AfterLoadError(error) ==
    IF error = "FileNotFoundError" THEN "serving" ELSE "failed"

\* csv_path does not exist: FileNotFoundError, caught at import, and passed
FileMissing ==
    /\ pc = "import"
    /\ load_error' = "FileNotFoundError"
    /\ pc' = AfterLoadError("FileNotFoundError")
    /\ UNCHANGED <<rows, LOOKUP_DATA, STATES, CORP_TYPES, EMP_SIZES, call, result,
                   emp_iter, repeated>>

\* csv_path exists and is opened
OpenFile ==
    /\ pc = "import"
    /\ pc' = "loading"
    /\ UNCHANGED <<rows, LOOKUP_DATA, STATES, CORP_TYPES, EMP_SIZES, call, result,
                   load_error, emp_iter, repeated>>

\* one iteration of `for row in reader`; float() or int() raising ValueError
\* is not caught at import, and it is raised after the three set.add calls
LoadRow(row) ==
    /\ pc = "loading"
    /\ Len(rows) < MaxRows
    /\ rows' = Append(rows, row)
    /\ STATES' = STATES \cup {row.state}
    /\ CORP_TYPES' = CORP_TYPES \cup {row.corp_type}
    /\ EMP_SIZES' = EMP_SIZES \cup {row.emp_size}
    /\ IF row.ok
       THEN /\ LOOKUP_DATA' = DictSet(LOOKUP_DATA, LoadKey(row), LoadData(row))
            /\ pc' = "loading"
            /\ load_error' = load_error
       ELSE /\ LOOKUP_DATA' = LOOKUP_DATA
            /\ load_error' = "ValueError"
            /\ pc' = AfterLoadError("ValueError")
    /\ UNCHANGED <<call, result, emp_iter, repeated>>

\* the reader is exhausted: load_lookup_table returns.  From here on
\* EMP_SIZES is not modified, so iterating it yields one order, which the
\* hashes of its strings decide
EndOfFile ==
    /\ pc = "loading"
    /\ pc' = "serving"
    /\ emp_iter' \in IterOrders(EMP_SIZES)
    /\ UNCHANGED <<rows, LOOKUP_DATA, STATES, CORP_TYPES, EMP_SIZES, call, result,
                   load_error, repeated>>

(***************************************************************************)
(* list.sort / sorted: a stable sort of [k, v] entries by the integer k.   *)
(* With reverse the order is descending and equal keys still keep their    *)
(* original relative order.                                                *)
(***************************************************************************)
RECURSIVE SortInsert(_, _, _)
SortInsert(done, e, reverse) ==
    IF done = <<>> THEN <<e>>
    ELSE IF (IF reverse THEN e.k > Head(done).k ELSE e.k < Head(done).k)
    THEN <<e>> \o done
    ELSE <<Head(done)>> \o SortInsert(Tail(done), e, reverse)

RECURSIVE SortFrom(_, _, _)
SortFrom(done, rest, reverse) ==
    IF rest = <<>> THEN done
    ELSE SortFrom(SortInsert(done, Head(rest), reverse), Tail(rest), reverse)

Sorted(entries, reverse) ==
    LET s == SortFrom(<<>>, entries, reverse)
    IN  [i \in 1..Len(s) |-> s[i].v]

\* sorted(S) for a set of strings
SortedStrs(S) ==
    CHOOSE p \in IterOrders(S) : \A i, j \in 1..Cardinality(S) : i < j => StrLess(p[i], p[j])

(***************************************************************************)
(* get_opportunity_score                                                   *)
(***************************************************************************)
\* the key without .strip()
Normalize_NoStrip(s) == Lower(s)

\* s.lower().strip()
Normalize(s) == Strip(Lower(s))

\* [s.lower() for s in S], as the set of its elements
LowerAll(S) == { Lower(s) : s \in S }

interpret_score(score) ==
    IF score >= 80 THEN "Excellent"
    ELSE IF score >= 60 THEN "Good"
    ELSE IF score >= 40 THEN "Moderate"
    ELSE IF score >= 20 THEN "Fair"
    ELSE "Limited"

NotLoadedError ==
    [error |-> "Lookup table not loaded. Please ensure score_lookup.csv exists.",
     hint |-> "Run the R model script first: Rscript model.R"]

Suggestions(state, corp_type, emp_size) ==
    LET state_match == Normalize(state) \in LowerAll(STATES)
        corp_match == Normalize(corp_type) \in LowerAll(CORP_TYPES)
        emp_match == Normalize(emp_size) \in LowerAll(EMP_SIZES)
        suggestions ==
            (IF ~state_match THEN <<[invalid |-> "state", value |-> state]>> ELSE <<>>)
            \o (IF ~corp_match THEN <<[invalid |-> "corp_type", value |-> corp_type]>> ELSE <<>>)
            \o (IF ~emp_match THEN <<[invalid |-> "emp_size", value |-> emp_size]>> ELSE <<>>)
    IN  IF suggestions # <<>> THEN suggestions
        ELSE <<[invalid |-> "combination", value |-> <<>>]>>

get_opportunity_score_impl(state, corp_type, emp_size) ==
    LET key == <<Normalize(state), Normalize(corp_type), Normalize(emp_size)>>
    IN  IF LOOKUP_DATA = <<>> THEN NotLoadedError
        ELSE IF ~DictHas(LOOKUP_DATA, key)
        THEN [error |-> "No data found for the specified combination",
              suggestions |-> Suggestions(state, corp_type, emp_size),
              provided |-> [state |-> state, corp_type |-> corp_type, emp_size |-> emp_size]]
        ELSE LET data == DictGet(LOOKUP_DATA, key)
             IN  [score |-> data.score,
                  interpretation |-> interpret_score(data.score),
                  confidence |-> data.confidence,
                  details |-> [state |-> data.state,
                               corporation_type |-> data.corp_type,
                               employee_size |-> data.emp_size,
                               establishments |-> data.establishments,
                               total_employees |-> data.employees,
                               avg_salary_thousands |-> Round2(data.avg_salary_thousands)]]

get_opportunity_score ==
    /\ pc = "serving"
    /\ call.op = "none"
    /\ \E state \in QStates, corp_type \in QCorpTypes, emp_size \in QEmpSizes :
          /\ call' = [op |-> "get_opportunity_score", state |-> state,
                      corp_type |-> corp_type, emp_size |-> emp_size]
          /\ result' = get_opportunity_score_impl(state, corp_type, emp_size)
    /\ repeated' = FALSE
    /\ UNCHANGED <<pc, rows, load_error, emp_iter, LOOKUP_DATA, STATES, CORP_TYPES, EMP_SIZES>>

(***************************************************************************)
(* list_states, list_corp_types, list_emp_sizes                            *)
(***************************************************************************)
DataNotLoaded == [error |-> "Data not loaded"]

list_states_impl ==
    IF STATES = {} THEN DataNotLoaded
    ELSE [count |-> Cardinality(STATES), states |-> SortedStrs(STATES)]

list_states ==
    /\ pc = "serving"
    /\ call.op = "none"
    /\ call' = [op |-> "list_states"]
    /\ result' = list_states_impl
    /\ repeated' = FALSE
    /\ UNCHANGED <<pc, rows, load_error, emp_iter, LOOKUP_DATA, STATES, CORP_TYPES, EMP_SIZES>>

type_descriptions ==
    { <<<<"c","-","c","o","r","p">>, "C-Corporation (traditional corporation with double taxation)">>,
      <<<<"s","-","c","o","r","p">>, "S-Corporation (pass-through taxation)">>,
      <<<<"s","o","l","e","-","p","r","o","p","r","i","e","t","o","r">>, "Individual/Sole Proprietorship">>,
      <<<<"p","a","r","t","n","e","r","s","h","i","p">>, "Partnership (general or limited)">>,
      <<<<"n","o","n","p","r","o","f","i","t">>, "Non-profit organization (501c3, etc.)">>,
      <<<<"g","o","v","e","r","n","m","e","n","t">>, "Government entity">>,
      <<<<"o","t","h","e","r">>, "Other non-corporate legal forms">> }

\* type_descriptions.get(ct, ct)
Description(ct) ==
    IF \E d \in type_descriptions : d[1] = ct
    THEN [known |-> TRUE, text |-> (CHOOSE d \in type_descriptions : d[1] = ct)[2]]
    ELSE [known |-> FALSE, code |-> ct]

list_corp_types_impl ==
    IF CORP_TYPES = {} THEN DataNotLoaded
    ELSE LET sorted == SortedStrs(CORP_TYPES)
         IN  [count |-> Cardinality(CORP_TYPES),
              corp_types |-> [i \in 1..Len(sorted) |->
                                 [code |-> sorted[i], description |-> Description(sorted[i])]]]

list_corp_types ==
    /\ pc = "serving"
    /\ call.op = "none"
    /\ call' = [op |-> "list_corp_types"]
    /\ result' = list_corp_types_impl
    /\ repeated' = FALSE
    /\ UNCHANGED <<pc, rows, load_error, emp_iter, LOOKUP_DATA, STATES, CORP_TYPES, EMP_SIZES>>

size_order ==
    << <<"1","-","4">>, <<"5","-","9">>, <<"1","0","-","1","9">>, <<"2","0","-","4","9">>,
       <<"5","0","-","9","9">>, <<"1","0","0","-","2","4","9">>, <<"2","5","0","-","4","9","9">>,
       <<"5","0","0","-","9","9","9">>, <<"1","0","0","0","+">> >>

\* size_order.index(x) if x in size_order else -1
SizeKey_Minus1(x) ==
    IF \E i \in 1..Len(size_order) : size_order[i] = x
    THEN (CHOOSE i \in 1..Len(size_order) : size_order[i] = x) - 1
    ELSE -1

\* size_order.index(x) if x in size_order else 99
SizeKey(x) ==
    IF \E i \in 1..Len(size_order) : size_order[i] = x
    THEN (CHOOSE i \in 1..Len(size_order) : size_order[i] = x) - 1
    ELSE 99

\* iter is the order in which iterating EMP_SIZES yields its elements
list_emp_sizes_impl(iter) ==
    IF EMP_SIZES = {} THEN DataNotLoaded
    ELSE LET sorted_sizes == Sorted([i \in 1..Len(iter) |-> [k |-> SizeKey(iter[i]), v |-> iter[i]]], FALSE)
         IN  [count |-> Len(sorted_sizes), emp_sizes |-> sorted_sizes]

list_emp_sizes ==
    /\ pc = "serving"
    /\ call.op = "none"
    /\ call' = [op |-> "list_emp_sizes"]
    /\ result' = list_emp_sizes_impl(emp_iter)
    /\ repeated' = FALSE
    /\ UNCHANGED <<pc, rows, load_error, emp_iter, LOOKUP_DATA, STATES, CORP_TYPES, EMP_SIZES>>

(***************************************************************************)
(* compare_states                                                          *)
(***************************************************************************)
\* the for loop: results and errors after the states have been visited
RECURSIVE CompareLoop(_, _, _, _, _)
CompareLoop(states, corp_type, emp_size, results, errors) ==
    IF states = <<>> THEN [results |-> results, errors |-> errors]
    ELSE LET state == Head(states)
             key == <<Normalize(state), Normalize(corp_type), Normalize(emp_size)>>
         IN  IF DictHas(LOOKUP_DATA, key)
             THEN LET data == DictGet(LOOKUP_DATA, key)
                  IN  CompareLoop(Tail(states), corp_type, emp_size,
                                  Append(results, [state |-> data.state,
                                                   score |-> data.score,
                                                   confidence |-> data.confidence,
                                                   establishments |-> data.establishments]),
                                  errors)
             ELSE CompareLoop(Tail(states), corp_type, emp_size, results, Append(errors, state))

\* an ascending sort that is then reversed, which also reverses ties
SortByScore_Reversed(items) ==
    LET up == Sorted([i \in 1..Len(items) |-> [k |-> items[i].score, v |-> items[i]]], FALSE)
    IN  [i \in 1..Len(up) |-> up[Len(up) + 1 - i]]

\* results.sort(key=lambda x: x["score"], reverse=True)
SortByScore(items) ==
    Sorted([i \in 1..Len(items) |-> [k |-> items[i].score, v |-> items[i]]], TRUE)

\* errors, whether empty or not
ErrorsOrNone_AlwaysList(errors) == PyList(errors)

\* errors if errors else None
ErrorsOrNone(errors) == IF errors # <<>> THEN PyList(errors) ELSE None

compare_states_impl(states, corp_type, emp_size) ==
    LET loop == CompareLoop(states, corp_type, emp_size, <<>>, <<>>)
        results == SortByScore(loop.results)
    IN  [comparison |->
            [corp_type |-> corp_type,
             emp_size |-> emp_size,
             results |-> results,
             best_state |-> IF results # <<>> THEN PyStr(results[1].state) ELSE None,
             worst_state |-> IF results # <<>> THEN PyStr(results[Len(results)].state) ELSE None],
         errors |-> ErrorsOrNone(loop.errors),
         summary |-> Len(results)]

\* the lists of states compare_states is called with
StateLists == UNION { [1..n -> QStates] : n \in 0..MaxStates }

compare_states ==
    /\ pc = "serving"
    /\ call.op = "none"
    /\ \E states \in StateLists, corp_type \in QCorpTypes, emp_size \in QEmpSizes :
          /\ call' = [op |-> "compare_states", states |-> states,
                      corp_type |-> corp_type, emp_size |-> emp_size]
          /\ result' = compare_states_impl(states, corp_type, emp_size)
    /\ repeated' = FALSE
    /\ UNCHANGED <<pc, rows, load_error, emp_iter, LOOKUP_DATA, STATES, CORP_TYPES, EMP_SIZES>>

(***************************************************************************)
(* top_states                                                              *)
(***************************************************************************)
\* the for loop over LOOKUP_DATA.items(): the matching entries, rank 0
Matching(corp_key, emp_key) ==
    LET hits == SelectSeq(LOOKUP_DATA, LAMBDA e : e.key[2] = corp_key /\ e.key[3] = emp_key)
    IN  [i \in 1..Len(hits) |->
            [rank |-> 0,
             state |-> hits[i].data.state,
             score |-> hits[i].data.score,
             confidence |-> hits[i].data.confidence,
             establishments |-> hits[i].data.establishments,
             avg_salary_thousands |-> Round2(hits[i].data.avg_salary_thousands)]]

\* the number of elements of lst[:n]
SliceLen(len, n) ==
    IF n >= 0 THEN (IF n < len THEN n ELSE len)
    ELSE (IF len + n > 0 THEN len + n ELSE 0)

\* lst[:n]
Slice(lst, n) == SubSeq(lst, 1, SliceLen(Len(lst), n))

\* enumerate(matching[:n]) without the start of 1
AddRanks_FromZero(matching, n) ==
    [i \in 1..Len(matching) |->
        IF i <= SliceLen(Len(matching), n) THEN [matching[i] EXCEPT !.rank = i - 1] ELSE matching[i]]

\* for i, item in enumerate(matching[:n], 1): item["rank"] = i
\* the dicts of the slice are those of matching, so the list keeps the ranks
AddRanks(matching, n) ==
    [i \in 1..Len(matching) |->
        IF i <= SliceLen(Len(matching), n) THEN [matching[i] EXCEPT !.rank = i] ELSE matching[i]]

\* len(matching[:n])
TotalAvailable_AfterSlice(matching, n) == Len(Slice(matching, n))

\* len(matching)
TotalAvailable(matching, n) == Len(matching)

top_states_impl(corp_type, emp_size, n) ==
    LET corp_key == Normalize(corp_type)
        emp_key == Normalize(emp_size)
        matching == AddRanks(SortByScore(Matching(corp_key, emp_key)), n)
    IN  [query |-> [corp_type |-> corp_type, emp_size |-> emp_size, requested |-> n],
         top_states |-> Slice(matching, n),
         total_available |-> TotalAvailable(matching, n)]

\* matching.append(data): the stored dicts themselves are ranked
RankedStore_Aliased(corp_type, emp_size, n) ==
    LET top == top_states_impl(corp_type, emp_size, n).top_states
    IN  [i \in 1..Len(LOOKUP_DATA) |->
            LET e == LOOKUP_DATA[i]
                hit == /\ e.key[2] = Normalize(corp_type)
                       /\ e.key[3] = Normalize(emp_size)
                       /\ \E j \in 1..Len(top) : top[j].state = e.data.state
            IN  IF hit
                THEN [e EXCEPT !.data =
                        [rank |-> (CHOOSE j \in 1..Len(top) : top[j].state = e.data.state)] @@ e.data]
                ELSE e]

\* LOOKUP_DATA after _top_states_impl: matching holds new dicts, so
\* item["rank"] = i writes to none of the stored records
RankedStore(corp_type, emp_size, n) == LOOKUP_DATA

top_states ==
    /\ pc = "serving"
    /\ call.op = "none"
    /\ \E corp_type \in QCorpTypes, emp_size \in QEmpSizes, n \in (-1)..MaxN :
          /\ call' = [op |-> "top_states", corp_type |-> corp_type,
                      emp_size |-> emp_size, n |-> n]
          /\ result' = top_states_impl(corp_type, emp_size, n)
          /\ LOOKUP_DATA' = RankedStore(corp_type, emp_size, n)
    /\ repeated' = FALSE
    /\ UNCHANGED <<pc, rows, load_error, emp_iter, STATES, CORP_TYPES, EMP_SIZES>>

\* the tool function has returned: the transport sends the result and is
\* ready for the next call
Respond ==
    /\ pc = "serving"
    /\ call.op # "none"
    /\ call' = [op |-> "none"]
    /\ result' = None
    /\ repeated' = FALSE
    /\ UNCHANGED <<pc, rows, load_error, emp_iter, LOOKUP_DATA, STATES, CORP_TYPES, EMP_SIZES>>

\* what the tool of call c returns
ResultOf(c) ==
    CASE c.op = "get_opportunity_score" ->
            get_opportunity_score_impl(c.state, c.corp_type, c.emp_size)
      [] c.op = "list_states" -> list_states_impl
      [] c.op = "list_corp_types" -> list_corp_types_impl
      [] c.op = "list_emp_sizes" -> list_emp_sizes_impl(emp_iter)
      [] c.op = "compare_states" ->
            compare_states_impl(c.states, c.corp_type, c.emp_size)
      [] c.op = "top_states" -> top_states_impl(c.corp_type, c.emp_size, c.n)

\* the caller makes the same tool call again, with the same arguments
Repeat ==
    /\ pc = "serving"
    /\ call.op # "none"
    /\ ~repeated
    /\ repeated' = TRUE
    /\ call' = call
    /\ result' = ResultOf(call)
    /\ LOOKUP_DATA' = IF call.op = "top_states"
                      THEN RankedStore(call.corp_type, call.emp_size, call.n)
                      ELSE LOOKUP_DATA
    /\ UNCHANGED <<pc, rows, load_error, emp_iter, STATES, CORP_TYPES, EMP_SIZES>>

Next ==
    \/ FileMissing
    \/ OpenFile
    \/ \E row \in Rows : LoadRow(row)
    \/ EndOfFile
    \/ get_opportunity_score
    \/ list_states
    \/ list_corp_types
    \/ list_emp_sizes
    \/ compare_states
    \/ top_states
    \/ Respond
    \/ Repeat

Spec == Init /\ [][Next]_vars

(***************************************************************************)
(* Vocabulary of the properties.                                           *)
(***************************************************************************)
\* the normalized form of the specification: lower(trim(s))
SpecNorm(s) == Lower(Strip(s))

SpecTriple(st, ct, es) == <<SpecNorm(st), SpecNorm(ct), SpecNorm(es)>>

RowTriple(row) == SpecTriple(row.state, row.corp_type, row.emp_size)

\* the index of the last row loaded with normalized triple k
LastRowWith(k) ==
    CHOOSE i \in 1..Len(rows) :
        RowTriple(rows[i]) = k /\ \A j \in (i + 1)..Len(rows) : RowTriple(rows[j]) # k

Loaded(k) == \E i \in 1..Len(rows) : RowTriple(rows[i]) = k

IsFound(r) == "score" \in DOMAIN r
IsNotFound(r) == "suggestions" \in DOMAIN r
IsNotLoaded(r) == r \in {NotLoadedError, DataNotLoaded}

CallTriple == SpecTriple(call.state, call.corp_type, call.emp_size)

\* C1: get_opportunity_score called with any casing/whitespace variant of a
\* loaded row's triple returns Found with the score, confidence,
\* establishments, employees and avg_salary of the last row loaded with
\* that normalized triple, unchanged.
C1_FoundForLoadedRow ==
    (call.op = "get_opportunity_score" /\ Loaded(CallTriple)) =>
        LET row == rows[LastRowWith(CallTriple)]
        IN  /\ IsFound(result)
            /\ result.score = row.score
            /\ result.confidence = row.confidence
            /\ result.details.establishments = row.establishments
            /\ result.details.total_employees = row.employees
            /\ result.details.avg_salary_thousands = row.avg_salary_thousands

\* C2: with nothing loaded, every query operation reports the not-loaded
\* condition, whatever its arguments.
C2_NotLoadedEverywhere ==
    (pc = "serving" /\ LOOKUP_DATA = <<>> /\ call.op # "none") => IsNotLoaded(result)

\* whether the i-th state given to compare_states has its key in the index
Resolves(i) ==
    DictHas(LOOKUP_DATA, SpecTriple(call.states[i], call.corp_type, call.emp_size))

AllResolve == \A i \in 1..Len(call.states) : Resolves(i)

\* C3, as claimed: when no input state fails to resolve, compare_states
\* returns errors as the empty list.
C3_ErrorsEmptyList ==
    (call.op = "compare_states" /\ AllResolve) =>
        ("errors" \in DOMAIN result /\ result.errors = PyList(<<>>))

\* C3, amended: compare_states always returns an errors value; it is None
\* when no input state fails to resolve, and a non-empty list otherwise.
C3_ErrorsNoneOrNonEmpty ==
    (call.op = "compare_states") =>
        /\ "errors" \in DOMAIN result
        /\ IF AllResolve
           THEN result.errors = None
           ELSE result.errors.tag = "list" /\ result.errors.items # <<>>

C3_Witness ==
    /\ call.op = "compare_states"
    /\ Len(call.states) = 2
    /\ AllResolve
    /\ result.errors = None

\* the entries of the returned errors value
ErrorItems(r) == IF r.errors = None THEN <<>> ELSE r.errors.items

\* the positions of compare_states's input that resolve, in input order
ResolvedPositions ==
    SelectSeq([i \in 1..Len(call.states) |-> i], LAMBDA i : Resolves(i))

UnresolvedPositions ==
    SelectSeq([i \in 1..Len(call.states) |-> i], LAMBDA i : ~Resolves(i))

\* the result entry of the i-th input state
EntryOf(i) ==
    LET data == DictGet(LOOKUP_DATA, SpecTriple(call.states[i], call.corp_type, call.emp_size))
    IN  [state |-> data.state, score |-> data.score,
         confidence |-> data.confidence, establishments |-> data.establishments]

\* C4: compare_states partitions its input: every occurrence is counted once,
\* in results iff its normalized key is in the index, else in errors, which
\* holds the original input strings of the unresolved occurrences in order.
C4_Partition ==
    (call.op = "compare_states") =>
        LET results == result.comparison.results
            errors == ErrorItems(result)
        IN  /\ Len(results) + Len(errors) = Len(call.states)
            /\ Len(results) = Len(ResolvedPositions)
            /\ errors = [j \in 1..Len(UnresolvedPositions) |-> call.states[UnresolvedPositions[j]]]
            /\ \A i \in 1..Len(call.states) :
                  Resolves(i) =>
                      Cardinality({j \in 1..Len(results) : results[j] = EntryOf(i)})
                        = Cardinality({j \in 1..Len(call.states) :
                                          Resolves(j) /\ EntryOf(j) = EntryOf(i)})

\* one state resolves and the other, not loaded, is reported as given
C4_Witness ==
    /\ call.op = "compare_states"
    /\ call.states = << <<"T","X">>, <<" ","c","a"," ">> >>
    /\ Len(result.comparison.results) = 1
    /\ result.comparison.results[1].state = <<"T","X">>
    /\ ErrorItems(result) = << <<" ","c","a"," ">> >>

\* the resolved entries in input order
InputEntries == [j \in 1..Len(ResolvedPositions) |-> EntryOf(ResolvedPositions[j])]

\* C5: the results of compare_states are ordered by score non-increasing,
\* entries of equal score keep their input order, best_state and worst_state
\* are the display states of the first and last entries, and both are None
\* exactly when there are no results.
C5_SortedStable ==
    (call.op = "compare_states") =>
        LET results == result.comparison.results
            best == result.comparison.best_state
            worst == result.comparison.worst_state
        IN  /\ \A i, j \in 1..Len(results) : i < j => results[i].score >= results[j].score
            /\ \A v \in {InputEntries[i].score : i \in 1..Len(InputEntries)} :
                  SelectSeq(results, LAMBDA e : e.score = v)
                    = SelectSeq(InputEntries, LAMBDA e : e.score = v)
            /\ Len(results) = Len(InputEntries)
            /\ (results = <<>>) <=> (best = None)
            /\ (results = <<>>) <=> (worst = None)
            /\ results # <<>> =>
                  /\ best = PyStr(results[1].state)
                  /\ worst = PyStr(results[Len(results)].state)

\* two different states tie, and the one later in key order was given first
C5_Witness ==
    /\ call.op = "compare_states"
    /\ Len(result.comparison.results) = 2
    /\ result.comparison.results[1].score = result.comparison.results[2].score
    /\ result.comparison.results[1].state = <<"T","X">>
    /\ result.comparison.results[2].state = <<"C","A">>
    /\ result.comparison.best_state = PyStr(<<"T","X">>)

\* the positions of LOOKUP_DATA whose corp_type and emp_size key components
\* are the normalized arguments of top_states, in iteration order
MatchPositions ==
    SelectSeq([i \in 1..Len(LOOKUP_DATA) |-> i],
              LAMBDA i : /\ LOOKUP_DATA[i].key[2] = SpecNorm(call.corp_type)
                         /\ LOOKUP_DATA[i].key[3] = SpecNorm(call.emp_size))

IsPrefix(s, t) == Len(s) <= Len(t) /\ s = SubSeq(t, 1, Len(s))

Min(a, b) == IF a < b THEN a ELSE b

\* the part of the claim about top_states that does not concern the order of scores
TopRanksAndTies ==
    LET top == result.top_states
        k == Min(call.n, result.total_available)
    IN  /\ Len(top) = k
        /\ \A i \in 1..Len(top) : top[i].rank = i
        /\ \A v \in {top[i].score : i \in 1..Len(top)} :
              IsPrefix(
                  LET tied == SelectSeq(top, LAMBDA e : e.score = v)
                  IN  [i \in 1..Len(tied) |-> tied[i].state],
                  LET hits == SelectSeq(MatchPositions, LAMBDA i : LOOKUP_DATA[i].data.score = v)
                  IN  [i \in 1..Len(hits) |-> LOOKUP_DATA[hits[i]].data.state])

\* C6, as claimed: for n >= 0 top_states returns min(n, total_available)
\* entries ranked 1..k, with scores strictly decreasing and ties in table order.
C6_StrictlyDecreasing ==
    (call.op = "top_states" /\ call.n >= 0) =>
        /\ TopRanksAndTies
        /\ \A i, j \in 1..Len(result.top_states) :
              i < j => result.top_states[i].score > result.top_states[j].score

\* C6, amended: for n >= 0 top_states returns min(n, total_available) entries
\* ranked 1..k, with scores non-increasing, and entries of equal score in the
\* iteration order of the index.
C6_NonIncreasing ==
    (call.op = "top_states" /\ call.n >= 0) =>
        /\ TopRanksAndTies
        /\ \A i, j \in 1..Len(result.top_states) :
              i < j => result.top_states[i].score >= result.top_states[j].score

\* TX and CA tie and TX was loaded first
C6_Witness ==
    /\ call.op = "top_states"
    /\ call.n = 2
    /\ result.total_available = 2
    /\ Len(result.top_states) = 2
    /\ result.top_states[1].score = result.top_states[2].score
    /\ result.top_states[1].state = <<"T","X">>
    /\ result.top_states[2].rank = 2

\* C7: total_available is the number of index entries whose corp_type and
\* emp_size key components equal the normalized arguments, whatever n is; with
\* n = 0 the ranked list is empty.
C7_TotalAvailable ==
    (call.op = "top_states") =>
        /\ result.total_available = Len(MatchPositions)
        /\ call.n = 0 => result.top_states = <<>>

C7_Witness ==
    /\ call.op = "top_states"
    /\ call.n = 0
    /\ result.top_states = <<>>
    /\ result.total_available = 1
    /\ Len(LOOKUP_DATA) = 2

\* whether the NotFound result flags the field as invalid
Flagged(field) ==
    \E i \in 1..Len(result.suggestions) : result.suggestions[i].invalid = field

Known(value, displays) == SpecNorm(value) \in {SpecNorm(d) : d \in displays}

\* C8: on a non-empty index with the normalized triple absent,
\* get_opportunity_score returns NotFound, flags each input iff it matches no
\* display value of its category case- and whitespace-insensitively, and
\* gives only the generic guidance when all three are known.
C8_PerFieldValidity ==
    (/\ call.op = "get_opportunity_score"
     /\ LOOKUP_DATA # <<>>
     /\ ~Loaded(CallTriple)
     /\ ~DictHas(LOOKUP_DATA, CallTriple)) =>
        /\ IsNotFound(result)
        /\ Flagged("state") <=> ~Known(call.state, STATES)
        /\ Flagged("corp_type") <=> ~Known(call.corp_type, CORP_TYPES)
        /\ Flagged("emp_size") <=> ~Known(call.emp_size, EMP_SIZES)
        /\ Flagged("combination") <=>
              /\ Known(call.state, STATES)
              /\ Known(call.corp_type, CORP_TYPES)
              /\ Known(call.emp_size, EMP_SIZES)

\* the records the index holds for the normalized triple k
RecordsFor(k) ==
    {i \in 1..Len(LOOKUP_DATA) :
        SpecTriple(LOOKUP_DATA[i].key[1], LOOKUP_DATA[i].key[2], LOOKUP_DATA[i].key[3]) = k}

\* C9: last-row-wins: for every loaded row the index holds exactly one record
\* for its normalized triple, with the data of the last row loaded with that
\* triple, and a lookup of the triple returns that row's score.
C9_LastRowWins ==
    (pc = "serving") =>
        /\ \A i \in 1..Len(rows) :
              LET k == RowTriple(rows[i])
              IN  /\ Cardinality(RecordsFor(k)) = 1
                  /\ \A j \in RecordsFor(k) :
                        LOOKUP_DATA[j].data = LoadData(rows[LastRowWith(k)])
        /\ (call.op = "get_opportunity_score" /\ Loaded(CallTriple)) =>
              (IsFound(result) /\ result.score = rows[LastRowWith(CallTriple)].score)

Canonical(x) == \E i \in 1..Len(size_order) : size_order[i] = x

CanonicalPos(x) == CHOOSE i \in 1..Len(size_order) : size_order[i] = x

\* the first row with emp_size x
FirstSeen(x) ==
    CHOOSE i \in 1..Len(rows) :
        rows[i].emp_size = x /\ \A j \in 1..(i - 1) : rows[j].emp_size # x

\* the part of the claim about list_emp_sizes that does not concern the
\* order of the non-canonical values among themselves
EmpSizesCanonicalFirst ==
    LET sizes == result.emp_sizes
    IN  /\ {sizes[i] : i \in 1..Len(sizes)} = {rows[i].emp_size : i \in 1..Len(rows)}
        /\ \A i, j \in 1..Len(sizes) : sizes[i] = sizes[j] => i = j
        /\ \A i, j \in 1..Len(sizes) :
              (i < j /\ Canonical(sizes[i]) /\ Canonical(sizes[j]))
                  => CanonicalPos(sizes[i]) < CanonicalPos(sizes[j])
        /\ \A i, j \in 1..Len(sizes) :
              (i < j /\ ~Canonical(sizes[i])) => ~Canonical(sizes[j])

\* C10, as claimed: list_emp_sizes returns every loaded emp_size once,
\* canonical values in the fixed order, then the non-canonical values in the
\* order they were first encountered in the table.
C10_NonCanonicalInLoadOrder ==
    (call.op = "list_emp_sizes" /\ rows # <<>>) =>
        /\ "emp_sizes" \in DOMAIN result
        /\ EmpSizesCanonicalFirst
        /\ \A i, j \in 1..Len(result.emp_sizes) :
              (i < j /\ ~Canonical(result.emp_sizes[i]) /\ ~Canonical(result.emp_sizes[j]))
                  => FirstSeen(result.emp_sizes[i]) < FirstSeen(result.emp_sizes[j])

\* C10, amended: list_emp_sizes returns every loaded emp_size once, canonical
\* values in the fixed order whatever the load order, then every
\* non-canonical value, in no guaranteed order among themselves.
C10_CanonicalThenOthers ==
    (call.op = "list_emp_sizes" /\ rows # <<>>) =>
        /\ "emp_sizes" \in DOMAIN result
        /\ EmpSizesCanonicalFirst

\* loaded as big, 1-4 and listed as 1-4, big
C10_Witness ==
    /\ call.op = "list_emp_sizes"
    /\ Len(rows) = 2
    /\ rows[1].emp_size = <<"b","i","g">>
    /\ rows[2].emp_size = <<"1","-","4">>
    /\ result.emp_sizes = << <<"1","-","4">>, <<"b","i","g">> >>

\* C11: no query operation changes the index: over every step taken while
\* serving, the mapping and the three display sets are unchanged (ranking in
\* top_states writes to no stored record), and a call made a second time with
\* the same arguments returns the same result.
C11_QueriesArePure ==
    [][(pc = "serving") =>
          /\ UNCHANGED index
          /\ (repeated' /\ call' = call) => result' = result]_vars

\* top_states has ranked two entries, was called again, and no stored
\* record carries a rank
C11_Witness ==
    /\ repeated
    /\ call.op = "top_states"
    /\ Len(result.top_states) = 2
    /\ result.top_states[2].rank = 2
    /\ \A i \in 1..Len(LOOKUP_DATA) : "rank" \notin DOMAIN LOOKUP_DATA[i].data

\* C12, as claimed: after a failed load, whether the table is missing or a
\* row is malformed, the server answers no query.
C12_NoQueryAfterFailedLoad ==
    (load_error # "none") => (call.op = "none")

\* C12, amended: a malformed row halts startup and no query is answered
\* after it; a missing table does not halt startup: the server goes on to
\* serve with nothing loaded.
C12_OnlyMalformedRowHalts ==
    /\ (load_error = "ValueError") => (pc = "failed" /\ call.op = "none" /\ result = None)
    /\ (load_error = "FileNotFoundError") =>
          (pc = "serving" /\ LOOKUP_DATA = <<>> /\ STATES = {})
    /\ (pc = "failed") => (load_error = "ValueError")

\* a row was loaded and the next one was malformed
C12_Witness ==
    /\ pc = "failed"
    /\ Len(rows) = 2
    /\ LOOKUP_DATA # <<>>
    /\ ~rows[2].ok

\* C13: once load_lookup_table has finished, normally or by raising, the
\* mapping is empty iff the three display sets are all empty, and every
\* stored record's display values are members of the sets.
C13_IndexAndSetsAgree ==
    (pc \in {"serving", "failed"}) =>
        /\ (LOOKUP_DATA = <<>>) <=> (STATES = {} /\ CORP_TYPES = {} /\ EMP_SIZES = {})
        /\ \A i \in 1..Len(LOOKUP_DATA) :
              /\ LOOKUP_DATA[i].data.state \in STATES
              /\ LOOKUP_DATA[i].data.corp_type \in CORP_TYPES
              /\ LOOKUP_DATA[i].data.emp_size \in EMP_SIZES
====
